---- MODULE Spec2Model ----
(***************************************************************************)
(* CatalogIdentityClient (plugins/auth-backend/src/lib/catalog):           *)
(* findUser and resolveCatalogMembership as asynchronous calls against a   *)
(* token manager and a catalog that answer, or fail, in any order.         *)
(*                                                                         *)
(* Strings that the code converts (lower-casing, parsing, stringifying)    *)
(* are sequences of one-character strings, so that the conversions are     *)
(* computed and not assumed.                                               *)
(***************************************************************************)
EXTENDS Integers, Sequences, FiniteSets, TLC

(* ------------------------------ bounds -------------------------------- *)

\* longest list of raw entity references passed to one call (Spec)
MaxRefs == 2
\* longest list of items one catalog response carries (Spec)
MaxItems == 2
\* number of calls that run concurrently on the one client (SpecConc)
MaxCalls == 2

Calls == 1..MaxCalls

(* ------------------------------ strings ------------------------------- *)

DEFAULT_KIND == <<"u", "s", "e", "r">>
DEFAULT_NAMESPACE == <<"d", "e", "f", "a", "u", "l", "t">>
RELATION_MEMBER_OF == "memberOf"

wGroup == <<"g", "r", "o", "u", "p">>
wUserCap == <<"U", "s", "e", "r">>
wGroupCap == <<"G", "r", "o", "u", "p">>
wDefaultCap == <<"D", "e", "f", "a", "u", "l", "t">>

\* String.prototype.toLocaleLowerCase('en-US') on one character
LowerChar(ch) ==
    CASE ch = "A" -> "a"
      [] ch = "D" -> "d"
      [] ch = "G" -> "g"
      [] ch = "U" -> "u"
      [] OTHER -> ch

ToLocaleLowerCase(s) == [i \in DOMAIN s |-> LowerChar(s[i])]

EntityName(k, ns, n) == [kind |-> k, namespace |-> ns, name |-> n]

\* the outcome of a parseEntityRef call that threw
ParseError == [ok |-> FALSE, kind |-> <<>>, namespace |-> <<>>, name |-> <<>>]

\* parseEntityRef(ref, {defaultKind, defaultNamespace}) of catalog-model:
\* the grammar [kind:][namespace/]name, every present segment non-empty,
\* at most one ":" and one "/", the ":" before the "/".
ParseEntityRef(ref, defaultKind, defaultNamespace) ==
    LET colons == {i \in DOMAIN ref : ref[i] = ":"}
        slashes == {i \in DOMAIN ref : ref[i] = "/"}
        ci == IF colons = {} THEN 0 ELSE CHOOSE i \in colons : TRUE
        si == IF slashes = {} THEN 0 ELSE CHOOSE i \in slashes : TRUE
        last == IF si > ci THEN si ELSE ci
        wellFormed ==
            /\ Cardinality(colons) <= 1
            /\ Cardinality(slashes) <= 1
            /\ ci # 1
            /\ (si > 0 => si > ci + 1)
            /\ Len(ref) > last
    IN  IF ~wellFormed THEN ParseError
        ELSE [ok |-> TRUE,
              kind |-> IF ci > 0 THEN SubSeq(ref, 1, ci - 1) ELSE defaultKind,
              namespace |-> IF si > 0 THEN SubSeq(ref, ci + 1, si - 1)
                            ELSE defaultNamespace,
              name |-> SubSeq(ref, last + 1, Len(ref))]

\* stringifyEntityRef of catalog-model: kind:namespace/name, lower-cased
StringifyEntityRef(ref) ==
    ToLocaleLowerCase(ref.kind) \o <<":">> \o ToLocaleLowerCase(ref.namespace)
        \o <<"/">> \o ToLocaleLowerCase(ref.name)

(* --------------------------- catalog contents -------------------------- *)

Relation(t, target) == [type |-> t, target |-> target]

\* an item of a getEntities response; hasRelations is FALSE when the
\* optional relations field is absent
Entity(k, ns, n, has, rels) ==
    [kind |-> k, namespace |-> ns, name |-> n, hasRelations |-> has,
     relations |-> rels]

\* user a: member of group g, owner of group h
eAlice == Entity(wUserCap, DEFAULT_NAMESPACE, <<"a">>, TRUE,
                 << Relation("memberOf", EntityName(wGroup, DEFAULT_NAMESPACE, <<"g">>)),
                    Relation("ownerOf", EntityName(wGroup, DEFAULT_NAMESPACE, <<"h">>)) >>)
\* group g: member of group h (the second hop from user a)
eGroupG == Entity(wGroupCap, DEFAULT_NAMESPACE, <<"g">>, TRUE,
                  << Relation("memberOf", EntityName(wGroupCap, wDefaultCap, <<"h">>)) >>)
\* user b: no relations field at all
eBob == Entity(wUserCap, DEFAULT_NAMESPACE, <<"b">>, FALSE, <<>>)

Entities == {eAlice, eGroupG, eBob}

RECURSIVE SeqsUpTo(_, _)
SeqsUpTo(S, n) ==
    IF n = 0 THEN {<<>>}
    ELSE LET shorter == SeqsUpTo(S, n - 1)
         IN  shorter \cup {Append(s, x) : s \in shorter, x \in S}

\* the responses getEntities may give (Spec)
ItemLists == SeqsUpTo(Entities, MaxItems)

(* ------------------------------ inputs -------------------------------- *)

rA == <<"a">>
rACap == <<"A">>
rUserA == wUserCap \o <<":">> \o wDefaultCap \o <<"/", "A">>
rKindA == DEFAULT_KIND \o <<":", "a">>
rNsA == DEFAULT_NAMESPACE \o <<"/", "a">>
rGroupG == wGroup \o <<":">> \o DEFAULT_NAMESPACE \o <<"/", "g">>
rEmpty == <<>>
rSeparators == <<":", ":", "/">>
rNoName == <<"a", "/">>

WellFormedRefs == {rA, rACap, rUserA, rKindA, rNsA, rGroupG}
MalformedRefs == {rEmpty, rSeparators, rNoName}
RawRefs == WellFormedRefs \cup MalformedRefs

\* the entityRefs a caller may pass (Spec)
RefLists == SeqsUpTo(RawRefs, MaxRefs)

\* the annotations a caller may pass to findUser
AnnotationSets == {{}, {<<"email", "x">>}, {<<"email", "x">>, <<"login", "y">>}}

\* the faults the token manager or the catalog may raise
Faults == {"AuthenticationError", "FetchError"}

(* ------------------------------- state -------------------------------- *)

VARIABLES
    pc,                  \* where each call is: idle, getToken, getEntities, done
    op,                  \* which operation the call runs
    input,               \* the call's argument (query)
    resolvedEntityRefs,  \* local of resolveCatalogMembership, kept over the awaits
    filter,              \* local filter, kept over the await of getToken
    token,               \* the token the call's getToken resolved to (0: none)
    request,             \* the getEntities request the call issued
    entities,            \* the items the call's getEntities resolved to
    fault,               \* the rejection the call's getToken or getEntities gave
    outcome,             \* what the call returned or threw
    log,                 \* what the call wrote to its logger
    io,                  \* the I/O steps the call performed, in order
    nextToken            \* the token manager: the next token it hands out

vars == <<pc, op, input, resolvedEntityRefs, filter, token, request, entities,
          fault, outcome, log, io, nextToken>>

NoInput == [annotations |-> {}, entityRefs |-> <<>>, logger |-> FALSE]
NoRequest == [sent |-> FALSE, filter |-> <<>>, token |-> 0]
Pending == [status |-> "pending", value |-> <<>>, error |-> "none"]
Returned(v) == [status |-> "returned", value |-> v, error |-> "none"]
Thrown(e) == [status |-> "thrown", value |-> <<>>, error |-> e]

Init ==
    /\ pc = [c \in Calls |-> "idle"]
    /\ op = [c \in Calls |-> "none"]
    /\ input = [c \in Calls |-> NoInput]
    /\ resolvedEntityRefs = [c \in Calls |-> <<>>]
    /\ filter = [c \in Calls |-> <<>>]
    /\ token = [c \in Calls |-> 0]
    /\ request = [c \in Calls |-> NoRequest]
    /\ entities = [c \in Calls |-> <<>>]
    /\ fault = [c \in Calls |-> "none"]
    /\ outcome = [c \in Calls |-> Pending]
    /\ log = [c \in Calls |-> <<>>]
    /\ io = [c \in Calls |-> <<>>]
    /\ nextToken = 1

(* ------------------------- the code's functions ------------------------ *)

\* lines 56-61: kind 'user' and one constraint per annotation
FindUserFilter(annotations) ==
    {[path |-> <<"kind">>, value |-> "user"]}
        \cup {[path |-> <<"metadata.annotations", a[1]>>, value |-> a[2]] :
                a \in annotations}

FindUserResultFirst(items) ==
    IF Len(items) >= 1 THEN Returned(items[1]) ELSE Thrown("NotFoundError")

\* lines 67-75: exactly one item, or ConflictError / NotFoundError
FindUserResult(items) ==
    IF Len(items) # 1
    THEN IF Len(items) > 1 THEN Thrown("ConflictError")
         ELSE Thrown("NotFoundError")
    ELSE Returned(items[1])

\* lines 89-98: the try block; ParseError stands for the null of the catch
TryParse(ref) ==
    ParseEntityRef(ToLocaleLowerCase(ref), DEFAULT_KIND, DEFAULT_NAMESPACE)

\* lines 87-100: map over the try block, then filter out the nulls
ResolvedEntityRefs(entityRefs) ==
    LET parsed == [i \in DOMAIN entityRefs |-> TryParse(entityRefs[i])]
        kept == SelectSeq(parsed, LAMBDA r : r.ok)
    IN  [i \in DOMAIN kept |->
            EntityName(kept[i].kind, kept[i].namespace, kept[i].name)]

Warning(ref) ==
    [level |-> "warn", message |-> "Failed to parse entityRef", refs |-> <<ref>>]

Debug(msg, refs) == [level |-> "debug", message |-> msg, refs |-> refs]

ParseWarningsOnce(entityRefs, logger) ==
    IF logger /\ \E i \in DOMAIN entityRefs : ~TryParse(entityRefs[i]).ok
    THEN <<Warning(entityRefs[CHOOSE i \in DOMAIN entityRefs :
                                  ~TryParse(entityRefs[i]).ok])>>
    ELSE <<>>

\* line 96: logger?.warn in the catch, once per reference that fails
ParseWarnings(entityRefs, logger) ==
    IF logger
    THEN LET failed == SelectSeq(entityRefs, LAMBDA r : ~TryParse(r).ok)
         IN  [i \in DOMAIN failed |-> Warning(failed[i])]
    ELSE <<>>

\* lines 102-106: one exact-match predicate per resolved reference
CatalogFilter(resolved) ==
    [i \in DOMAIN resolved |->
        [kind |-> resolved[i].kind,
         metadata_namespace |-> resolved[i].namespace,
         metadata_name |-> resolved[i].name]]

RequestWithCachedToken(f, t) ==
    [sent |-> TRUE, filter |-> f,
     token |-> IF \E c \in Calls : token[c] # 0
               THEN CHOOSE k \in {token[c] : c \in Calls} \ {0} :
                        \A c \in Calls : token[c] # 0 => k <= token[c]
               ELSE t]

\* lines 65 and 108-109: getEntities({ filter }, { token })
GetEntitiesRequest(f, t) == [sent |-> TRUE, filter |-> f, token |-> t]

RejectedWrapped(f) == Thrown("Error")

\* lines 64-65 and 107-110: an await with no catch rethrows the rejection
Rejected(f) == Thrown(f)

RECURSIVE Flatten(_)
Flatten(ss) == IF ss = <<>> THEN <<>> ELSE Head(ss) \o Flatten(Tail(ss))

AllTargets(e) ==
    LET rels == IF e.hasRelations THEN e.relations ELSE <<>>
    IN  [i \in DOMAIN rels |-> rels[i].target]

\* lines 122-124: relations?.filter(memberOf).map(target) ?? []
MemberOfTargets(e) ==
    LET rels == IF e.hasRelations
                THEN SelectSeq(e.relations,
                               LAMBDA r : r.type = RELATION_MEMBER_OF)
                ELSE <<>>
    IN  [i \in DOMAIN rels |-> rels[i].target]

MemberOfAnyRelation(ents) == Flatten([i \in DOMAIN ents |-> AllTargets(ents[i])])

MemberOfShared(ents) ==
    LET all == Flatten([c \in Calls |-> entities[c]]) \o ents
    IN  Flatten([i \in DOMAIN all |-> MemberOfTargets(all[i])])

\* lines 120-125: the targets of the memberOf relations of the entities
MemberOf(ents) == Flatten([i \in DOMAIN ents |-> MemberOfTargets(ents[i])])

RECURSIVE FirstOccurrences(_, _)
FirstOccurrences(s, n) ==
    IF n = 0 THEN <<>>
    ELSE LET before == FirstOccurrences(s, n - 1)
         IN  IF \E j \in 1..(n - 1) : s[j] = s[n] THEN before
             ELSE Append(before, s[n])

NoDedup(s) == s

\* line 128: [...new Set(s)], the first occurrence of each value, in order
Dedup(s) == FirstOccurrences(s, Len(s))

NewEntityRefsSkipEmpty(resolved, memberOf) ==
    IF resolved = <<>> THEN <<>>
    ELSE LET all == resolved \o memberOf
         IN  Dedup([i \in DOMAIN all |-> StringifyEntityRef(all[i])])

\* lines 127-129
NewEntityRefs(resolved, memberOf) ==
    LET all == resolved \o memberOf
    IN  Dedup([i \in DOMAIN all |-> StringifyEntityRef(all[i])])

\* lines 113-116
MissingEntityNames(resolved, ents) ==
    LET foundEntityNames == [i \in DOMAIN ents |-> StringifyEntityRef(ents[i])]
        names == [i \in DOMAIN resolved |-> StringifyEntityRef(resolved[i])]
    IN  SelectSeq(names,
                  LAMBDA s : ~\E i \in DOMAIN foundEntityNames :
                                  foundEntityNames[i] = s)

ResolveCompletionLoggerOnly(entityRefs, logger, resolved, ents) ==
    LET memberOf == IF logger THEN MemberOf(ents) ELSE <<>>
        newEntityRefs == NewEntityRefs(resolved, memberOf)
        notFound == IF Len(entityRefs) # Len(ents)
                    THEN <<Debug("Entities not found for refs",
                                 MissingEntityNames(resolved, ents))>>
                    ELSE <<>>
        found == <<Debug("Found catalog membership", newEntityRefs)>>
    IN  [value |-> newEntityRefs,
         log |-> IF logger THEN notFound \o found ELSE <<>>]

\* lines 112-132: what the call logs and returns once getEntities resolved
ResolveCompletion(entityRefs, logger, resolved, ents) ==
    LET memberOf == MemberOf(ents)
        newEntityRefs == NewEntityRefs(resolved, memberOf)
        notFound == IF Len(entityRefs) # Len(ents)
                    THEN <<Debug("Entities not found for refs",
                                 MissingEntityNames(resolved, ents))>>
                    ELSE <<>>
        found == <<Debug("Found catalog membership", newEntityRefs)>>
    IN  [value |-> newEntityRefs,
         log |-> IF logger THEN notFound \o found ELSE <<>>]

(* ------------------------------ findUser ------------------------------ *)

\* lines 55-64: build the filter, call getToken, suspend
FindUserStart(c, annotations) ==
    /\ pc[c] = "idle"
    /\ op' = [op EXCEPT ![c] = "findUser"]
    /\ input' = [input EXCEPT ![c] = [NoInput EXCEPT !.annotations = annotations]]
    /\ filter' = [filter EXCEPT ![c] = FindUserFilter(annotations)]
    /\ io' = [io EXCEPT ![c] = Append(@, "getToken")]
    /\ pc' = [pc EXCEPT ![c] = "getToken"]
    /\ UNCHANGED <<resolvedEntityRefs, token, request, entities, fault, outcome,
                   log, nextToken>>

\* lines 64-65: getToken resolved; call getEntities with that token, suspend
FindUserTokenOk(c) ==
    /\ pc[c] = "getToken" /\ op[c] = "findUser"
    /\ token' = [token EXCEPT ![c] = nextToken]
    /\ nextToken' = nextToken + 1
    /\ request' = [request EXCEPT ![c] = GetEntitiesRequest(filter[c], nextToken)]
    /\ io' = [io EXCEPT ![c] = Append(@, "getEntities")]
    /\ pc' = [pc EXCEPT ![c] = "getEntities"]
    /\ UNCHANGED <<op, input, resolvedEntityRefs, filter, entities, fault,
                   outcome, log>>

\* line 64: getToken rejected; the call rejects
FindUserTokenFail(c, f) ==
    /\ pc[c] = "getToken" /\ op[c] = "findUser"
    /\ fault' = [fault EXCEPT ![c] = f]
    /\ outcome' = [outcome EXCEPT ![c] = Rejected(f)]
    /\ pc' = [pc EXCEPT ![c] = "done"]
    /\ UNCHANGED <<op, input, resolvedEntityRefs, filter, token, request,
                   entities, log, io, nextToken>>

\* lines 65-75: getEntities resolved; return the one item or throw
FindUserCatalogOk(c, items) ==
    /\ pc[c] = "getEntities" /\ op[c] = "findUser"
    /\ entities' = [entities EXCEPT ![c] = items]
    /\ outcome' = [outcome EXCEPT ![c] = FindUserResult(items)]
    /\ pc' = [pc EXCEPT ![c] = "done"]
    /\ UNCHANGED <<op, input, resolvedEntityRefs, filter, token, request,
                   fault, log, io, nextToken>>

\* line 65: getEntities rejected; the call rejects
FindUserCatalogFail(c, f) ==
    /\ pc[c] = "getEntities" /\ op[c] = "findUser"
    /\ fault' = [fault EXCEPT ![c] = f]
    /\ outcome' = [outcome EXCEPT ![c] = Rejected(f)]
    /\ pc' = [pc EXCEPT ![c] = "done"]
    /\ UNCHANGED <<op, input, resolvedEntityRefs, filter, token, request,
                   entities, log, io, nextToken>>

(* ---------------------- resolveCatalogMembership ---------------------- *)

\* lines 85-107: parse the references, warn, build the filter, call
\* getToken, suspend
ResolveStart(c, entityRefs, logger) ==
    /\ pc[c] = "idle"
    /\ op' = [op EXCEPT ![c] = "resolveCatalogMembership"]
    /\ input' = [input EXCEPT ![c] = [NoInput EXCEPT !.entityRefs = entityRefs,
                                                     !.logger = logger]]
    /\ resolvedEntityRefs' =
           [resolvedEntityRefs EXCEPT ![c] = ResolvedEntityRefs(entityRefs)]
    /\ log' = [log EXCEPT ![c] = ParseWarnings(entityRefs, logger)]
    /\ filter' = [filter EXCEPT ![c] =
                      CatalogFilter(ResolvedEntityRefs(entityRefs))]
    /\ io' = [io EXCEPT ![c] = Append(@, "getToken")]
    /\ pc' = [pc EXCEPT ![c] = "getToken"]
    /\ UNCHANGED <<token, request, entities, fault, outcome, nextToken>>

\* lines 107-110: getToken resolved; call getEntities with that token
ResolveTokenOk(c) ==
    /\ pc[c] = "getToken" /\ op[c] = "resolveCatalogMembership"
    /\ token' = [token EXCEPT ![c] = nextToken]
    /\ nextToken' = nextToken + 1
    /\ request' = [request EXCEPT ![c] = GetEntitiesRequest(filter[c], nextToken)]
    /\ io' = [io EXCEPT ![c] = Append(@, "getEntities")]
    /\ pc' = [pc EXCEPT ![c] = "getEntities"]
    /\ UNCHANGED <<op, input, resolvedEntityRefs, filter, entities, fault,
                   outcome, log>>

\* line 107: getToken rejected; the call rejects
ResolveTokenFail(c, f) ==
    /\ pc[c] = "getToken" /\ op[c] = "resolveCatalogMembership"
    /\ fault' = [fault EXCEPT ![c] = f]
    /\ outcome' = [outcome EXCEPT ![c] = Rejected(f)]
    /\ pc' = [pc EXCEPT ![c] = "done"]
    /\ UNCHANGED <<op, input, resolvedEntityRefs, filter, token, request,
                   entities, log, io, nextToken>>

\* lines 108-132: getEntities resolved; log, union, dedupe, return
ResolveCatalogOk(c, items) ==
    /\ pc[c] = "getEntities" /\ op[c] = "resolveCatalogMembership"
    /\ entities' = [entities EXCEPT ![c] = items]
    /\ LET r == ResolveCompletion(input[c].entityRefs, input[c].logger,
                                  resolvedEntityRefs[c], items)
       IN  /\ outcome' = [outcome EXCEPT ![c] = Returned(r.value)]
           /\ log' = [log EXCEPT ![c] = @ \o r.log]
    /\ pc' = [pc EXCEPT ![c] = "done"]
    /\ UNCHANGED <<op, input, resolvedEntityRefs, filter, token, request,
                   fault, io, nextToken>>

\* lines 108-110: getEntities rejected; the call rejects
ResolveCatalogFail(c, f) ==
    /\ pc[c] = "getEntities" /\ op[c] = "resolveCatalogMembership"
    /\ fault' = [fault EXCEPT ![c] = f]
    /\ outcome' = [outcome EXCEPT ![c] = Rejected(f)]
    /\ pc' = [pc EXCEPT ![c] = "done"]
    /\ UNCHANGED <<op, input, resolvedEntityRefs, filter, token, request,
                   entities, log, io, nextToken>>

(* --------------------------- specifications --------------------------- *)

\* Spec: one call, every input and every response within the bounds.
Next ==
    \/ \E a \in AnnotationSets : FindUserStart(1, a)
    \/ FindUserTokenOk(1)
    \/ \E f \in Faults : FindUserTokenFail(1, f)
    \/ \E items \in ItemLists : FindUserCatalogOk(1, items)
    \/ \E f \in Faults : FindUserCatalogFail(1, f)
    \/ \E refs \in RefLists, lg \in BOOLEAN : ResolveStart(1, refs, lg)
    \/ ResolveTokenOk(1)
    \/ \E f \in Faults : ResolveTokenFail(1, f)
    \/ \E items \in ItemLists : ResolveCatalogOk(1, items)
    \/ \E f \in Faults : ResolveCatalogFail(1, f)

Spec == Init /\ [][Next]_vars

\* SpecConc: MaxCalls calls on the one client, their steps interleaved in
\* any order, over a reduced set of inputs and responses.
ConcAnnotationSets == {{<<"email", "x">>}}
ConcRefLists == {<<rACap>>, <<rEmpty>>}
ConcItemLists == {<<>>, <<eAlice>>}
ConcFaults == {"FetchError"}

NextConc ==
    \E c \in Calls :
        \/ \E a \in ConcAnnotationSets : FindUserStart(c, a)
        \/ FindUserTokenOk(c)
        \/ \E f \in ConcFaults : FindUserTokenFail(c, f)
        \/ \E items \in ConcItemLists : FindUserCatalogOk(c, items)
        \/ \E f \in ConcFaults : FindUserCatalogFail(c, f)
        \/ \E refs \in ConcRefLists, lg \in BOOLEAN : ResolveStart(c, refs, lg)
        \/ ResolveTokenOk(c)
        \/ \E f \in ConcFaults : ResolveTokenFail(c, f)
        \/ \E items \in ConcItemLists : ResolveCatalogOk(c, items)
        \/ \E f \in ConcFaults : ResolveCatalogFail(c, f)

SpecConc == Init /\ [][NextConc]_vars

(* ------------------------------ properties ----------------------------- *)

Range(s) == {s[i] : i \in DOMAIN s}

IsFindUser(c) == op[c] = "findUser"
IsResolve(c) == op[c] = "resolveCatalogMembership"
HasReturned(c) == outcome[c].status = "returned"
HasThrown(c) == outcome[c].status = "thrown"

\* the canonical string kind:namespace/name of the references used below
cUserA == DEFAULT_KIND \o <<":">> \o DEFAULT_NAMESPACE \o <<"/", "a">>
cGroupG == wGroup \o <<":">> \o DEFAULT_NAMESPACE \o <<"/", "g">>
cGroupH == wGroup \o <<":">> \o DEFAULT_NAMESPACE \o <<"/", "h">>

\* positions of the call's input references that are malformed / well-formed
MalformedAt(c) == {i \in DOMAIN input[c].entityRefs :
                       input[c].entityRefs[i] \in MalformedRefs}
WellFormedAt(c) == DOMAIN input[c].entityRefs \ MalformedAt(c)

\* canonical strings of the call's well-formed input references
ParsedStrings(c) ==
    {StringifyEntityRef(ParseEntityRef(ToLocaleLowerCase(input[c].entityRefs[i]),
                                       DEFAULT_KIND, DEFAULT_NAMESPACE)) :
        i \in WellFormedAt(c)}

\* canonical strings of the memberOf targets of the entities the call received
TargetStrings(c) ==
    UNION {{StringifyEntityRef(e.relations[k].target) :
                k \in {j \in DOMAIN e.relations :
                           e.relations[j].type = "memberOf"}} :
           e \in {x \in Range(entities[c]) : x.hasRelations}}

\* C1: findUser returns the one item of a one-item response, throws
\* NotFoundError on an empty response and ConflictError on two or more
\* items, and never returns a value unless the response had exactly one item.
C1_FindUserCardinality ==
    \A c \in Calls :
        IsFindUser(c) =>
            /\ (pc[c] = "done" /\ fault[c] = "none") =>
                   /\ Len(entities[c]) = 1 =>
                          /\ HasReturned(c)
                          /\ outcome[c].value = entities[c][1]
                   /\ Len(entities[c]) = 0 =>
                          /\ HasThrown(c)
                          /\ outcome[c].error = "NotFoundError"
                   /\ Len(entities[c]) >= 2 =>
                          /\ HasThrown(c)
                          /\ outcome[c].error = "ConflictError"
            /\ HasReturned(c) => Len(entities[c]) = 1

C1_Witness ==
    /\ IsFindUser(1) /\ pc[1] = "done"
    /\ Len(entities[1]) = 2
    /\ outcome[1].error = "ConflictError"

\* C2: the set of strings resolveCatalogMembership returns is the union of
\* the canonical strings of the parsed input references and of the targets
\* of the memberOf relations of the returned entities, and nothing else.
C2_ResultIsUnion ==
    \A c \in Calls :
        (IsResolve(c) /\ HasReturned(c)) =>
            Range(outcome[c].value) = ParsedStrings(c) \cup TargetStrings(c)

C2_Witness ==
    /\ IsResolve(1) /\ HasReturned(1)
    /\ input[1].entityRefs = <<rA>>
    /\ entities[1] = <<eAlice>>
    /\ cGroupG \in Range(outcome[1].value)
    /\ cGroupH \notin Range(outcome[1].value)

\* C3: malformed input references do not make the call fail, do not appear
\* in the result, do not stop the well-formed ones from being requested and
\* returned, and each produces one warning when a logger is supplied.
C3_MalformedDropped ==
    \A c \in Calls :
        (IsResolve(c) /\ MalformedAt(c) # {}) =>
            LET refs == input[c].entityRefs
                warnings == SelectSeq(log[c], LAMBDA m : m.level = "warn")
                malformed == SelectSeq(refs, LAMBDA r : r \in MalformedRefs)
            IN  /\ (pc[c] = "done" /\ fault[c] = "none") => HasReturned(c)
                /\ HasReturned(c) =>
                       /\ \A i \in MalformedAt(c) :
                              refs[i] \notin Range(outcome[c].value)
                       /\ ParsedStrings(c) \subseteq Range(outcome[c].value)
                /\ request[c].sent =>
                       Len(request[c].filter) = Cardinality(WellFormedAt(c))
                /\ input[c].logger =>
                       /\ Len(warnings) = Len(malformed)
                       /\ \A i \in DOMAIN warnings :
                              warnings[i].refs = <<malformed[i]>>
                /\ ~input[c].logger => warnings = <<>>

C3_Witness ==
    /\ IsResolve(1) /\ HasReturned(1)
    /\ input[1].entityRefs = <<rSeparators, rA>>
    /\ input[1].logger
    /\ Len(log[1]) >= 1 /\ log[1][1].level = "warn"
    /\ cUserA \in Range(outcome[1].value)

\* C4: the sequence resolveCatalogMembership returns holds no string twice.
C4_NoDuplicates ==
    \A c \in Calls :
        (IsResolve(c) /\ HasReturned(c)) =>
            \A i, j \in DOMAIN outcome[c].value :
                outcome[c].value[i] = outcome[c].value[j] => i = j

C4_Witness ==
    /\ IsResolve(1) /\ HasReturned(1)
    /\ input[1].entityRefs = <<rACap, rGroupG>>
    /\ entities[1] = <<eAlice, eAlice>>
    /\ outcome[1].value = <<cUserA, cGroupG>>

\* C5 as stated: with no input reference that parses, the call acquires a
\* credential, issues no catalog query, and returns the empty result.
C5_NoQueryWhenNothingParsed ==
    \A c \in Calls :
        (IsResolve(c) /\ pc[c] = "done" /\ fault[c] = "none"
                      /\ WellFormedAt(c) = {}) =>
            /\ io[c] = <<"getToken">>
            /\ outcome[c] = Returned(<<>>)

\* C5 amended: with no input reference that parses, the call acquires a
\* credential, then issues one catalog query whose filter is the empty
\* list, and, unless one of the two steps faults, returns the canonical
\* strings of the memberOf targets of the entities that query returned.
C5_EmptyFilterQueried ==
    \A c \in Calls :
        (IsResolve(c) /\ WellFormedAt(c) = {}) =>
            /\ pc[c] = "getEntities" =>
                   /\ request[c].sent
                   /\ request[c].filter = <<>>
            /\ (pc[c] = "done" /\ fault[c] = "none") =>
                   /\ io[c] = <<"getToken", "getEntities">>
                   /\ request[c].sent
                   /\ request[c].filter = <<>>
                   /\ HasReturned(c)
                   /\ Range(outcome[c].value) = TargetStrings(c)

C5_Witness ==
    /\ IsResolve(1) /\ HasReturned(1)
    /\ input[1].entityRefs = <<rEmpty, rSeparators>>
    /\ request[1].filter = <<>>
    /\ outcome[1].value = <<cGroupG>>

\* C6: a fault of getToken or getEntities is what the call throws,
\* unmodified; the failed step is not attempted again; after a getToken
\* fault no catalog query is issued; resolveCatalogMembership throws for no
\* other reason.
C6_FaultPropagated ==
    \A c \in Calls :
        /\ fault[c] # "none" =>
               /\ pc[c] = "done"
               /\ outcome[c].status = "thrown"
               /\ outcome[c].error = fault[c]
               /\ outcome[c].value = <<>>
               /\ IF token[c] = 0
                  THEN io[c] = <<"getToken">> /\ ~request[c].sent
                  ELSE io[c] = <<"getToken", "getEntities">>
        /\ (IsResolve(c) /\ HasThrown(c)) => fault[c] # "none"

C6_Witness ==
    /\ IsResolve(1) /\ pc[1] = "done"
    /\ fault[1] = "FetchError" /\ token[1] # 0
    /\ outcome[1].error = "FetchError"

SameOutcome(a, b) ==
    /\ a.status = b.status
    /\ a.error = b.error
    /\ a.status = "returned" => a.value = b.value

\* C8: with calls interleaved, what a call returns is made only of its own
\* input and of the response to its own catalog query, and two calls with
\* the same input and the same responses have the same outcome.
C8_OwnDataOnly ==
    \A c \in Calls :
        /\ (IsFindUser(c) /\ HasReturned(c)) =>
               outcome[c].value \in Range(entities[c])
        /\ (IsResolve(c) /\ HasReturned(c)) =>
               Range(outcome[c].value) \subseteq
                   ParsedStrings(c) \cup TargetStrings(c)
        /\ \A d \in Calls :
               (/\ pc[c] = "done" /\ pc[d] = "done"
                /\ op[c] = op[d]
                /\ input[c].entityRefs = input[d].entityRefs
                /\ input[c].annotations = input[d].annotations
                /\ input[c].logger = input[d].logger
                /\ fault[c] = fault[d]
                /\ (token[c] = 0) = (token[d] = 0)
                /\ entities[c] = entities[d])
               => SameOutcome(outcome[c], outcome[d])

C8_Witness ==
    /\ pc[1] = "getEntities" /\ pc[2] = "done"
    /\ token[1] < token[2]
    /\ IsResolve(1) /\ IsResolve(2)
    /\ input[2].entityRefs = <<rEmpty>>
    /\ outcome[2] = Returned(<<cGroupG>>)

\* C9: a call with a logger and a call without one, given the same
\* references and the same responses, have the same outcome; the one
\* without a logger writes no diagnostics.
C9_LoggerDoesNotChangeResult ==
    \A c, d \in Calls :
        (/\ IsResolve(c) /\ IsResolve(d)
         /\ pc[c] = "done" /\ pc[d] = "done"
         /\ input[c].logger /\ ~input[d].logger
         /\ input[c].entityRefs = input[d].entityRefs
         /\ fault[c] = fault[d]
         /\ (token[c] = 0) = (token[d] = 0)
         /\ entities[c] = entities[d])
        => /\ SameOutcome(outcome[c], outcome[d])
           /\ log[d] = <<>>

C9_Witness ==
    /\ IsResolve(1) /\ IsResolve(2)
    /\ input[1].logger /\ ~input[2].logger
    /\ input[1].entityRefs = <<rACap>> /\ input[2].entityRefs = <<rACap>>
    /\ entities[1] = <<eAlice>> /\ entities[2] = <<eAlice>>
    /\ outcome[1] = Returned(<<cUserA, cGroupG>>)
    /\ outcome[2] = outcome[1]
    /\ log[1] # <<>> /\ log[2] = <<>>

\* C10: with a logger, the "Entities not found" diagnostic is written
\* exactly when the catalog returned a number of entities other than the
\* number of parsed references, and lists the parsed references that are
\* not among the returned entities.
C10_NotFoundDiagnostic ==
    \A c \in Calls :
        (IsResolve(c) /\ HasReturned(c) /\ input[c].logger) =>
            LET notFound == SelectSeq(log[c],
                     LAMBDA m : m.message = "Entities not found for refs")
                found == {StringifyEntityRef(e) : e \in Range(entities[c])}
            IN  /\ notFound # <<>> <=>
                       Len(entities[c]) # Cardinality(WellFormedAt(c))
                /\ Len(notFound) <= 1
                /\ notFound # <<>> =>
                       Range(notFound[1].refs) = ParsedStrings(c) \ found

====
